---- MODULE Spec2Model ----
(***************************************************************************)
(* Model of the navigation / caching core of src/Act2-1.py:                *)
(*   CacheManager        (on-disk JSON cache, one file per (type, key))    *)
(*   GameDataManager     (map-file loader, search_npc_location,            *)
(*                        get_pathfinding, get_portal_to_next_map)         *)
(*   NostaleQuestBot     (update_position, travel_to_map, walk_to,         *)
(*                        go_to_npc_and_talk)                              *)
(*                                                                         *)
(* Python values are tagged tuples, so that JSON serialisation is a real   *)
(* conversion:  <<"int", n>>  <<"str", s>>  <<"none">>  <<"list", seq>>     *)
(* <<"tuple", seq>>  <<"dict", f>> with f a function whose domain is a set  *)
(* of <<"str", s>> / <<"int", n>> keys.  JSON documents are                 *)
(* <<"number", n>>  <<"string", s>>  <<"null">>  <<"array", seq>>           *)
(* <<"object", g>> with g a function on strings.                           *)
(***************************************************************************)
EXTENDS Integers, Sequences, FiniteSets, TLC

VARIABLES
    files,      \* the cache folder: path -> <<"json", doc>> or <<"corrupt">>
    mapFiles,   \* data/maps: map id -> <<"missing">>, <<"unparseable">> or <<"data", rec>>
    last,       \* the last completed call: its name, arguments, result and trace
    lastSet,    \* (cache type, key) -> the most recent CacheManager.set call on it
    hist,       \* per-argument call history of the GameDataManager lookups
    worldMap,   \* the map the player really is on (the game client's truth)
    current_map_id, \* NostaleQuestBot.current_map_id: the last observed map
    nav,        \* the travel_to_map call in progress: position and locals
    talk,       \* the go_to_npc_and_talk call in progress: position and locals
    npcs_data,  \* GameDataManager.npcs_data: the entries of the NPC index, in order
    monsters_data, \* GameDataManager.monsters_data: the entries of the monster index
    quest       \* the do_act_2_1 call in progress: position and steps made

dataVars == <<files, mapFiles, last, lastSet, hist>>
navVars == <<worldMap, current_map_id, nav, talk>>
questVars == <<npcs_data, monsters_data, quest>>
vars ==
    <<files, mapFiles, last, lastSet, hist, worldMap, current_map_id, nav, talk,
      npcs_data, monsters_data, quest>>

-----------------------------------------------------------------------------
(* Python values and the json module                                       *)

PyNone == <<"none">>
PyInt(n) == <<"int", n>>
PyStr(s) == <<"str", s>>
PyList(s) == <<"list", s>>
PyTuple(s) == <<"tuple", s>>
PyDict(f) == <<"dict", f>>

EmptyFn == [k \in {} |-> PyNone]

\* str(n) for n >= 0, as used by f-strings and by json for integer dict keys
Digit(d) ==
    CASE d = 0 -> "0" [] d = 1 -> "1" [] d = 2 -> "2" [] d = 3 -> "3"
      [] d = 4 -> "4" [] d = 5 -> "5" [] d = 6 -> "6" [] d = 7 -> "7"
      [] d = 8 -> "8" [] d = 9 -> "9"

RECURSIVE IntToStr(_)
IntToStr(n) ==
    IF n < 10 THEN Digit(n) ELSE IntToStr(n \div 10) \o Digit(n % 10)

\* json.dump coerces a non-string dict key to its string form
KeyStr(k) == IF k[1] = "str" THEN k[2] ELSE IntToStr(k[2])

\* json.dump(value): tuples become arrays, dict keys become strings
RECURSIVE json_dump(_)
json_dump(v) ==
    CASE v[1] = "int" -> <<"number", v[2]>>
      [] v[1] = "str" -> <<"string", v[2]>>
      [] v[1] = "none" -> <<"null">>
      [] v[1] \in {"list", "tuple"} ->
            <<"array", [i \in 1..Len(v[2]) |-> json_dump(v[2][i])]>>
      [] v[1] = "dict" ->
            <<"object",
              [s \in {KeyStr(k) : k \in DOMAIN v[2]} |->
                  json_dump(v[2][CHOOSE k \in DOMAIN v[2] : KeyStr(k) = s])]>>

\* json.load(document): arrays become lists, objects become str-keyed dicts
RECURSIVE json_load(_)
json_load(j) ==
    CASE j[1] = "number" -> PyInt(j[2])
      [] j[1] = "string" -> PyStr(j[2])
      [] j[1] = "null" -> PyNone
      [] j[1] = "array" ->
            PyList([i \in 1..Len(j[2]) |-> json_load(j[2][i])])
      [] j[1] = "object" ->
            PyDict([k \in {PyStr(s) : s \in DOMAIN j[2]} |-> json_load(j[2][k[2]])])

\* Python truthiness, as tested by "if cached:" and "if not path"
Truthy(v) ==
    CASE v[1] = "none" -> FALSE
      [] v[1] = "int" -> v[2] # 0
      [] v[1] = "str" -> v[2] # ""
      [] v[1] \in {"list", "tuple"} -> Len(v[2]) > 0
      [] v[1] = "dict" -> DOMAIN v[2] # {}

\* d.get(key, default) on a dict
DictGet(d, key, default) ==
    IF PyStr(key) \in DOMAIN d[2] THEN d[2][PyStr(key)] ELSE default

-----------------------------------------------------------------------------
(* CacheManager                                                            *)

\* (mutant) one file per cache type, whatever the key
get_cache_file_nokey(cache_type, key) == cache_type \o "/cache.json"

\* (mutant) one folder for all cache types
get_cache_file_notype(cache_type, key) == key \o ".json"

\* cache_folder / cache_type / f"{key}.json", relative to the cache folder
get_cache_file(cache_type, key) == cache_type \o "/" \o key \o ".json"

\* (mutant) an undecodable file reads as an empty dict
CacheManager_get_lenient(fs, cache_type, key) ==
    LET cache_file == get_cache_file(cache_type, key) IN
    IF cache_file \in DOMAIN fs
    THEN IF fs[cache_file][1] = "json"
         THEN json_load(fs[cache_file][2])
         ELSE PyDict(EmptyFn)
    ELSE PyNone

\* CacheManager.get: the decoded file, None when it is missing or undecodable
CacheManager_get(fs, cache_type, key) ==
    LET cache_file == get_cache_file(cache_type, key) IN
    IF cache_file \in DOMAIN fs
    THEN IF fs[cache_file][1] = "json"
         THEN json_load(fs[cache_file][2])
         ELSE PyNone
    ELSE PyNone

\* The outcomes of the write in CacheManager.set: it persists, open() fails
\* (the file is left as it was), or the write fails after open() truncated
\* the file (an undecodable remainder is left).  The exception is swallowed.
WriteOutcomes == {"ok", "open_failed", "write_failed"}

\* (mutant) a write that fails after open() leaves the complete record
CacheManager_set_complete(fs, cache_type, key, value, outcome) ==
    LET cache_file == get_cache_file(cache_type, key) IN
    CASE outcome = "ok" -> (cache_file :> <<"json", json_dump(value)>>) @@ fs
      [] outcome = "open_failed" -> fs
      [] outcome = "write_failed" ->
            (cache_file :> <<"json", json_dump(value)>>) @@ fs

CacheManager_set(fs, cache_type, key, value, outcome) ==
    LET cache_file == get_cache_file(cache_type, key) IN
    CASE outcome = "ok" -> (cache_file :> <<"json", json_dump(value)>>) @@ fs
      [] outcome = "open_failed" -> fs
      [] outcome = "write_failed" -> (cache_file :> <<"corrupt">>) @@ fs

\* (mutant) an existence test that reads the entry
CacheManager_exists_decodable(fs, cache_type, key) ==
    CacheManager_get(fs, cache_type, key) # PyNone

\* CacheManager.exists: the file is there, whatever it holds
CacheManager_exists(fs, cache_type, key) ==
    get_cache_file(cache_type, key) \in DOMAIN fs

-----------------------------------------------------------------------------
(* GameDataManager: map files and search_npc_location                      *)

\* Number of map files scanned, range(1, 413) in the source; scaled down.
MapCount == 3

\* self.current_map_id = None
NoMapId == 0

Npc(vnum, x, y) == [vnum |-> vnum, x |-> x, y |-> y]
Portal(dest, x, y) ==
    [destination_map_id |-> dest, source_map_x |-> x, source_map_y |-> y]
MapData(npcs, portals) == <<"data", [npcs |-> npcs, portals |-> portals]>>

\* load_map_file: the parsed file, None when it is missing or unparseable
load_map_file(maps, map_id) ==
    IF map_id \in DOMAIN maps /\ maps[map_id][1] = "data"
    THEN maps[map_id]
    ELSE PyNone

\* Index of the first element of seq satisfying Test, 0 when there is none:
\* a for loop that returns at its first match
FirstIndex(seq, Test(_)) ==
    IF \E i \in 1..Len(seq) : Test(seq[i])
    THEN CHOOSE i \in 1..Len(seq) :
            Test(seq[i]) /\ \A j \in 1..(i - 1) : ~Test(seq[j])
    ELSE 0

\* (mutant) the inner loop does not return at its first match: the last
\* placement of the vnum on the map wins
RECURSIVE ScanMapsLastPlacement(_, _, _, _)
ScanMapsLastPlacement(maps, npc_vnum, map_id, loads) ==
    IF map_id > MapCount
    THEN [found |-> FALSE, loads |-> loads]
    ELSE LET map_data == load_map_file(maps, map_id)
             loaded == Append(loads, map_id)
         IN  IF map_data = PyNone
             THEN ScanMapsLastPlacement(maps, npc_vnum, map_id + 1, loaded)
             ELSE LET npcs == map_data[2].npcs
                      hits == {i \in 1..Len(npcs) : npcs[i].vnum = npc_vnum}
                  IN  IF hits = {}
                      THEN ScanMapsLastPlacement(maps, npc_vnum, map_id + 1, loaded)
                      ELSE [found |-> TRUE, map_id |-> map_id,
                            npc |-> npcs[CHOOSE i \in hits : \A j \in hits : j <= i],
                            loads |-> loaded]

\* The loop of search_npc_location from map_id on: loads each map file in
\* turn, skips the ones that do not load, returns at the first placement
\* whose vnum matches.  loads is the sequence of load_map_file calls so far.
RECURSIVE ScanMaps(_, _, _, _)
ScanMaps(maps, npc_vnum, map_id, loads) ==
    IF map_id > MapCount
    THEN [found |-> FALSE, loads |-> loads]
    ELSE LET map_data == load_map_file(maps, map_id)
             loaded == Append(loads, map_id)
         IN  IF map_data = PyNone
             THEN ScanMaps(maps, npc_vnum, map_id + 1, loaded)
             ELSE LET IsNpc(n) == n.vnum = npc_vnum
                      i == FirstIndex(map_data[2].npcs, IsNpc)
                  IN  IF i = 0
                      THEN ScanMaps(maps, npc_vnum, map_id + 1, loaded)
                      ELSE [found |-> TRUE, map_id |-> map_id,
                            npc |-> map_data[2].npcs[i], loads |-> loaded]

LocationKey(npc_vnum) == "npc_location_" \o IntToStr(npc_vnum)

LocationRecord(map_id, npc) ==
    PyDict( (PyStr("map_id") :> PyInt(map_id))
         @@ (PyStr("npc_vnum") :> PyInt(npc.vnum))
         @@ (PyStr("x") :> PyInt(npc.x))
         @@ (PyStr("y") :> PyInt(npc.y)) )

SetCall(cache_type, key, value) ==
    [cache_type |-> cache_type, key |-> key, value |-> value]

\* (mutant) the cache is read under another cache type than it is written
search_npc_location_wrong_type(fs, maps, npc_vnum, outcome) ==
    LET cache_key == LocationKey(npc_vnum)
        cached == CacheManager_get(fs, "npc_location", cache_key)
    IN  IF Truthy(cached)
        THEN [result |-> cached[2][PyStr("map_id")], files |-> fs,
              hit |-> TRUE, loads |-> <<>>, sets |-> <<>>]
        ELSE LET scan == ScanMaps(maps, npc_vnum, 1, <<>>) IN
             IF scan.found
             THEN LET value == LocationRecord(scan.map_id, scan.npc) IN
                  [result |-> PyInt(scan.map_id),
                   files |-> CacheManager_set(fs, "npc_locations", cache_key,
                                              value, outcome),
                   hit |-> FALSE, loads |-> scan.loads,
                   sets |-> <<SetCall("npc_locations", cache_key, value)>>]
             ELSE [result |-> PyNone, files |-> fs,
                   hit |-> FALSE, loads |-> scan.loads, sets |-> <<>>]

\* (mutant) a search that finds nothing records that in the cache
search_npc_location_cache_absent(fs, maps, npc_vnum, outcome) ==
    LET cache_key == LocationKey(npc_vnum)
        cached == CacheManager_get(fs, "npc_locations", cache_key)
    IN  IF Truthy(cached)
        THEN [result |-> cached[2][PyStr("map_id")], files |-> fs,
              hit |-> TRUE, loads |-> <<>>, sets |-> <<>>]
        ELSE LET scan == ScanMaps(maps, npc_vnum, 1, <<>>) IN
             IF scan.found
             THEN LET value == LocationRecord(scan.map_id, scan.npc) IN
                  [result |-> PyInt(scan.map_id),
                   files |-> CacheManager_set(fs, "npc_locations", cache_key,
                                              value, outcome),
                   hit |-> FALSE, loads |-> scan.loads,
                   sets |-> <<SetCall("npc_locations", cache_key, value)>>]
             ELSE LET value == PyDict( (PyStr("map_id") :> PyNone)
                                    @@ (PyStr("npc_vnum") :> PyInt(npc_vnum)) )
                  IN  [result |-> PyNone,
                       files |-> CacheManager_set(fs, "npc_locations", cache_key,
                                                  value, outcome),
                       hit |-> FALSE, loads |-> scan.loads,
                       sets |-> <<SetCall("npc_locations", cache_key, value)>>]

\* search_npc_location(npc_vnum) on cache folder fs and map folder maps;
\* outcome is the outcome of the cache write, should one be made.
\* Returns the result, the cache folder afterwards, the load_map_file calls
\* and the CacheManager.set calls made.
search_npc_location(fs, maps, npc_vnum, outcome) ==
    LET cache_key == LocationKey(npc_vnum)
        cached == CacheManager_get(fs, "npc_locations", cache_key)
    IN  IF Truthy(cached)
        THEN [result |-> cached[2][PyStr("map_id")], files |-> fs,
              hit |-> TRUE, loads |-> <<>>, sets |-> <<>>]
        ELSE LET scan == ScanMaps(maps, npc_vnum, 1, <<>>) IN
             IF scan.found
             THEN LET value == LocationRecord(scan.map_id, scan.npc) IN
                  [result |-> PyInt(scan.map_id),
                   files |-> CacheManager_set(fs, "npc_locations", cache_key,
                                              value, outcome),
                   hit |-> FALSE, loads |-> scan.loads,
                   sets |-> <<SetCall("npc_locations", cache_key, value)>>]
             ELSE [result |-> PyNone, files |-> fs,
                   hit |-> FALSE, loads |-> scan.loads, sets |-> <<>>]

-----------------------------------------------------------------------------
(* GameDataManager: get_pathfinding and the routing service                *)

\* str(m) and the JSON value of a map id that may be None
MapStr(m) == IF m = NoMapId THEN "None" ELSE IntToStr(m)
PyMap(m) == IF m = NoMapId THEN PyNone ELSE PyInt(m)

\* (mutant) one key for both directions
RouteKey_undirected(from_map, to_map) ==
    IF from_map <= to_map
    THEN MapStr(from_map) \o "_to_" \o MapStr(to_map)
    ELSE MapStr(to_map) \o "_to_" \o MapStr(from_map)

RouteKey(from_map, to_map) == MapStr(from_map) \o "_to_" \o MapStr(to_map)

PyPath(seq) == PyList([i \in 1..Len(seq) |-> PyInt(seq[i])])

\* Answers of the routing service: <<"network_error">>, or
\* <<"status", code, body>> with body <<"json", doc>> or <<"garbage">>.
HttpOk(doc) == <<"status", 200, <<"json", doc>>>>
PathBody(seq) == <<"object", ("path" :> json_dump(PyPath(seq)))>>
EmptyObject == <<"object", [k \in {} |-> <<"null">>]>>

RouteRecord(from_map, to_map, path) ==
    PyDict( (PyStr("from") :> PyMap(from_map))
         @@ (PyStr("to") :> PyMap(to_map))
         @@ (PyStr("path") :> path) )

\* (mutant) a failed call is cached as an empty route
get_pathfinding_cache_failure(fs, from_map, to_map, response, outcome) ==
    LET cache_key == RouteKey(from_map, to_map)
        cached == CacheManager_get(fs, "pathfinding", cache_key)
        empty == RouteRecord(from_map, to_map, PyList(<<>>))
        failure == [result |-> PyList(<<>>),
                    files |-> CacheManager_set(fs, "pathfinding", cache_key,
                                               empty, outcome),
                    hit |-> FALSE, called |-> TRUE,
                    sets |-> <<SetCall("pathfinding", cache_key, empty)>>]
    IN  IF Truthy(cached)
        THEN [result |-> DictGet(cached, "path", PyList(<<>>)), files |-> fs,
              hit |-> TRUE, called |-> FALSE, sets |-> <<>>]
        ELSE IF response[1] = "network_error" THEN failure
        ELSE IF response[2] >= 400 THEN failure
        ELSE IF response[3][1] # "json" THEN failure
        ELSE LET result == json_load(response[3][2]) IN
             IF result[1] # "dict"
             THEN failure
             ELSE LET path == DictGet(result, "path", PyList(<<>>))
                      value == RouteRecord(from_map, to_map, path)
                  IN  [result |-> path,
                       files |-> CacheManager_set(fs, "pathfinding", cache_key,
                                                  value, outcome),
                       hit |-> FALSE, called |-> TRUE,
                       sets |-> <<SetCall("pathfinding", cache_key, value)>>]

\* (mutant) a cached record counts as a hit only when its path is not empty
get_pathfinding_skip_empty(fs, from_map, to_map, response, outcome) ==
    LET cache_key == RouteKey(from_map, to_map)
        cached == CacheManager_get(fs, "pathfinding", cache_key)
        failure == [result |-> PyList(<<>>), files |-> fs, hit |-> FALSE,
                    called |-> TRUE, sets |-> <<>>]
    IN  IF Truthy(cached) /\ Truthy(DictGet(cached, "path", PyList(<<>>)))
        THEN [result |-> DictGet(cached, "path", PyList(<<>>)), files |-> fs,
              hit |-> TRUE, called |-> FALSE, sets |-> <<>>]
        ELSE IF response[1] = "network_error" THEN failure
        ELSE IF response[2] >= 400 THEN failure
        ELSE IF response[3][1] # "json" THEN failure
        ELSE LET result == json_load(response[3][2]) IN
             IF result[1] # "dict"
             THEN failure
             ELSE LET path == DictGet(result, "path", PyList(<<>>))
                      value == RouteRecord(from_map, to_map, path)
                  IN  [result |-> path,
                       files |-> CacheManager_set(fs, "pathfinding", cache_key,
                                                  value, outcome),
                       hit |-> FALSE, called |-> TRUE,
                       sets |-> <<SetCall("pathfinding", cache_key, value)>>]

\* get_pathfinding(from_map, to_map) on cache folder fs, with the answer
\* the routing service gives if it is called and the outcome of the cache
\* write if one is made.  called: whether the service was contacted.
get_pathfinding(fs, from_map, to_map, response, outcome) ==
    LET cache_key == RouteKey(from_map, to_map)
        cached == CacheManager_get(fs, "pathfinding", cache_key)
        failure == [result |-> PyList(<<>>), files |-> fs, hit |-> FALSE,
                    called |-> TRUE, sets |-> <<>>]
    IN  IF Truthy(cached)
        THEN [result |-> DictGet(cached, "path", PyList(<<>>)), files |-> fs,
              hit |-> TRUE, called |-> FALSE, sets |-> <<>>]
        ELSE IF response[1] = "network_error"
        THEN failure                       \* session.get raises
        ELSE IF response[2] >= 400
        THEN failure                       \* raise_for_status raises HTTPError
        ELSE IF response[3][1] # "json"
        THEN failure                       \* response.json() raises
        ELSE LET result == json_load(response[3][2]) IN
             IF result[1] # "dict"
             THEN failure                  \* result.get raises AttributeError
             ELSE LET path == DictGet(result, "path", PyList(<<>>))
                      value == RouteRecord(from_map, to_map, path)
                  IN  [result |-> path,
                       files |-> CacheManager_set(fs, "pathfinding", cache_key,
                                                  value, outcome),
                       hit |-> FALSE, called |-> TRUE,
                       sets |-> <<SetCall("pathfinding", cache_key, value)>>]

-----------------------------------------------------------------------------
(* GameDataManager.get_portal_to_next_map                                  *)

\* (mutant) the loop does not return at its first match: the last portal to
\* next_map wins
get_portal_to_next_map_last(maps, current_map, next_map) ==
    LET map_data == load_map_file(maps, current_map) IN
    IF map_data = PyNone
    THEN PyNone
    ELSE LET ps == map_data[2].portals
             To == {i \in 1..Len(ps) : ps[i].destination_map_id = next_map}
         IN  IF To = {}
             THEN PyNone
             ELSE LET i == CHOOSE i \in To : \A j \in To : j <= i
                  IN  <<ps[i].source_map_x, ps[i].source_map_y>>

\* Coordinates <<x, y>> of the first portal of current_map whose destination
\* is next_map; None when the map file does not load or has no such portal
get_portal_to_next_map(maps, current_map, next_map) ==
    LET map_data == load_map_file(maps, current_map) IN
    IF map_data = PyNone
    THEN PyNone
    ELSE LET Leads(p) == p.destination_map_id = next_map
             i == FirstIndex(map_data[2].portals, Leads)
         IN  IF i = 0
             THEN PyNone
             ELSE <<map_data[2].portals[i].source_map_x,
                    map_data[2].portals[i].source_map_y>>

-----------------------------------------------------------------------------
(* GameDataManager.find_npc_by_name and find_npc_on_map                    *)

\* Names are sequences of characters.  str.lower() over the letters used.
LowerChar(c) ==
    CASE c = "K" -> "k"
      [] c = "M" -> "m"
      [] c = "A" -> "a"
      [] c = "C" -> "c"
      [] c = "O" -> "o"
      [] c = "S" -> "s"
      [] OTHER -> c

Lower(name) == [i \in 1..Len(name) |-> LowerChar(name[i])]

\* Python's "needle in hay" for strings
Contains(hay, needle) ==
    \E i \in 0..(Len(hay) - Len(needle)) :
       SubSeq(hay, i + 1, i + Len(needle)) = needle

\* An entry of npcs.json: its id and its French name, None when it has none
NpcInfo(id, fr) == [id |-> id, fr |-> fr]

\* npc.get("name", {}).get("fr", "").lower()
NameFr(npc) == IF npc.fr = PyNone THEN <<>> ELSE Lower(npc.fr)

\* (mutant) the name must equal the pattern
find_npc_by_name_exact(entries, name_pattern) ==
    LET Matches(npc) == NameFr(npc) = Lower(name_pattern)
        i == FirstIndex(entries, Matches)
    IN  IF i = 0 THEN PyNone ELSE <<"npc", entries[i]>>

\* find_npc_by_name over the entries of npcs_data in iteration order: the
\* first entry whose name contains the pattern or is contained in it, as
\* <<"npc", entry>>, or None
find_npc_by_name(entries, name_pattern) ==
    LET name_lower == Lower(name_pattern)
        Matches(npc) ==
            Contains(NameFr(npc), name_lower) \/ Contains(name_lower, NameFr(npc))
        i == FirstIndex(entries, Matches)
    IN  IF i = 0 THEN PyNone ELSE <<"npc", entries[i]>>

\* find_monster_by_name: the same scan over the entries of monsters_data
find_monster_by_name(entries, name_pattern) ==
    LET name_lower == Lower(name_pattern)
        Matches(monster) ==
            Contains(NameFr(monster), name_lower) \/ Contains(name_lower, NameFr(monster))
        i == FirstIndex(entries, Matches)
    IN  IF i = 0 THEN PyNone ELSE <<"npc", entries[i]>>

\* (mutant) the NPC is looked for in the files of all maps
find_npc_on_map_any(maps, map_id, npc_vnum) ==
    LET Has(m) == \E k \in 1..Len(maps[m][2].npcs) : maps[m][2].npcs[k].vnum = npc_vnum
        Ms == {m \in DOMAIN maps : maps[m][1] = "data" /\ Has(m)}
    IN  IF Ms = {}
        THEN PyNone
        ELSE LET m == CHOOSE m \in Ms : \A o \in Ms : m <= o
                 Is(npc) == npc.vnum = npc_vnum
                 i == FirstIndex(maps[m][2].npcs, Is)
             IN  <<maps[m][2].npcs[i].x, maps[m][2].npcs[i].y>>

\* find_npc_on_map: <<x, y>> of the first placement of the vnum in the file
\* of the map, None when the file does not load or does not have the vnum
find_npc_on_map(maps, map_id, npc_vnum) ==
    LET map_data == load_map_file(maps, map_id) IN
    IF map_data = PyNone
    THEN PyNone
    ELSE LET Is(npc) == npc.vnum = npc_vnum
             i == FirstIndex(map_data[2].npcs, Is)
         IN  IF i = 0
             THEN PyNone
             ELSE <<map_data[2].npcs[i].x, map_data[2].npcs[i].y>>

\* No go_to_npc_and_talk call is active.  steps lists the steps begun, in
\* order; travelled, walkSent and packets keep what the steps did.
TalkIdle ==
    [pc |-> "idle", npc_name |-> <<>>, npc_vnum |-> NoMapId, npc_map |-> PyNone,
     npc_pos |-> PyNone, steps |-> <<>>, travelled |-> "no", walkSent |-> "no",
     seenInScene |-> FALSE, packets |-> <<>>, result |-> FALSE]

\* No do_act_2_1 call in progress.  called lists the names handed to
\* go_to_npc_and_talk so far, returns what the completed calls returned and
\* sent the packets they sent.
QuestIdle == [pc |-> "idle", called |-> <<>>, returns |-> <<>>, sent |-> <<>>]

-----------------------------------------------------------------------------
(* NostaleQuestBot.travel_to_map, one step per external call               *)

\* Desync recovery re-enters travel_to_map (line 395) without a bound of its
\* own; the interpreter's recursion limit (about 1000 frames) ends it.  The
\* limit is scaled down to this many re-entries.  nav.depth counts the
\* re-entries, nav.cause keeps what the poll that revealed the last desync
\* saw.
MaxDepth == 2

\* No travel_to_map call is active
NoCause == [live |-> NoMapId, hop |-> 0, path |-> PyNone]

NavIdle ==
    [pc |-> "idle", target_map |-> NoMapId, depth |-> 0, cause |-> NoCause,
     entryMap |-> NoMapId, requested |-> <<>>, path |-> PyNone, i |-> 0,
     portal_pos |-> PyNone, walks |-> <<>>, polls |-> 0, result |-> FALSE]

\* update_position: the polled map, or the old value when the poll raises
update_position(current, world, poll_ok) ==
    IF poll_ok THEN world ELSE current

\* (mutant) only the empty route is refused
RouteUsable_nonempty(path) == Truthy(path)

\* "if not path or len(path) < 2" is false: the route can be walked
RouteUsable(path) == Truthy(path) /\ Len(path[2]) >= 2

\* (mutant) the early return is gone
AtDestination_never(current, target_map) == FALSE

\* (mutant) any known position counts as the destination
AtDestination_anywhere(current, target_map) == current # NoMapId

\* "if self.current_map_id == target_map", lines 370 and 412
AtDestination(current, target_map) == current = target_map

\* (mutant) the route is followed whatever the poll says
Desynced_never(current, expected) == FALSE

\* (mutant) only an unknown position counts as a desync
Desynced_unknown(current, expected) == current = NoMapId

\* "if self.current_map_id != current"
Desynced(current, expected) == current # expected

\* path[i] for the 1-based hop index i
Hop(path, i) == path[2][i][2]

-----------------------------------------------------------------------------
(* Calls of the GameDataManager lookups, with their history                *)

NoFn == [k \in {} |-> PyNone]
NoFiles == [p \in {} |-> <<"corrupt">>]

Lookup(f, k, default) == IF k \in DOMAIN f THEN f[k] ELSE default

\* History is kept per call argument, not per cache key.
LocArg(npc_vnum) == <<"loc", npc_vnum, 0>>
RouteArg(from_map, to_map) == <<"route", from_map, to_map>>

\* returned: first map id a search returned for the argument
\* prev:     how the most recent lookup of the argument ended
\* stored:   the value of the first write for the argument that persisted
\* writes:   "once" / "many" CacheManager.set calls made for the argument
\* allPersisted: no CacheManager.set call made by a lookup has failed
\* prevWrite: outcome of the CacheManager.set call of the most recent lookup
\*           of the argument, "none" when it made no such call
\* prevShort: the most recent lookup of the argument returned a list of
\*           fewer than 2 entries
NoHist ==
    [returned |-> NoFn, prev |-> NoFn, stored |-> NoFn, writes |-> NoFn,
     allPersisted |-> TRUE, prevWrite |-> NoFn, prevShort |-> NoFn]

Before(arg) ==
    [returned |-> Lookup(hist.returned, arg, PyNone),
     prev |-> Lookup(hist.prev, arg, "none"),
     stored |-> Lookup(hist.stored, arg, PyNone),
     prevWrite |-> Lookup(hist.prevWrite, arg, "none"),
     prevShort |-> Lookup(hist.prevShort, arg, FALSE)]

HistAfter(arg, r, outcome, status) ==
    LET wrote == r.sets # <<>>
        persisted == wrote /\ outcome = "ok"
    IN  [returned |->
            IF arg[1] = "loc" /\ r.result # PyNone /\ arg \notin DOMAIN hist.returned
            THEN (arg :> r.result) @@ hist.returned ELSE hist.returned,
         prev |-> (arg :> status) @@ hist.prev,
         stored |->
            IF persisted /\ arg \notin DOMAIN hist.stored
            THEN (arg :> r.sets[1].value) @@ hist.stored ELSE hist.stored,
         writes |->
            IF wrote
            THEN (arg :> (IF arg \in DOMAIN hist.writes THEN "many" ELSE "once"))
                 @@ hist.writes
            ELSE hist.writes,
         allPersisted |-> hist.allPersisted /\ (wrote => outcome = "ok"),
         prevWrite |-> (arg :> (IF wrote THEN outcome ELSE "none")) @@ hist.prevWrite,
         prevShort |-> (arg :> (r.result[1] = "list" /\ Len(r.result[2]) < 2))
                       @@ hist.prevShort]

\* Contents a map file can have
MapFileChoices ==
    { <<"missing">>,
      <<"unparseable">>,
      MapData(<<Npc(2, 4, 5)>>, <<>>),
      MapData(<<Npc(2, 1, 1), Npc(1, 2, 3), Npc(1, 6, 7)>>, <<>>) }

\* NPC vnums searched for (vnum 2 is only ever a bystander in the map files)
Vnums == {1}

\* (from_map, to_map) pairs routes are asked for
RoutePairs == {<<1, 2>>, <<2, 1>>}

\* Answers the routing service can give for (from_map, to_map)
RouteResponses(from_map, to_map) ==
    { HttpOk(PathBody(<<from_map, to_map>>)),
      HttpOk(PathBody(<<from_map, 3, to_map>>)),
      HttpOk(PathBody(<<>>)),
      HttpOk(EmptyObject),
      HttpOk(<<"array", <<>>>>),
      <<"status", 200, <<"garbage">>>>,
      <<"status", 403, <<"garbage">>>>,
      <<"status", 500, <<"garbage">>>>,
      <<"network_error">> }

\* The call failed: network error, HTTP error status, unparseable body, or
\* a body that is not a JSON object
ServiceFailed(response) ==
    \/ response[1] = "network_error"
    \/ response[2] # 200
    \/ response[3][1] # "json"
    \/ response[3][2][1] # "object"

Init ==
    /\ files = NoFiles
    /\ mapFiles = [m \in 1..MapCount |-> <<"missing">>]
    /\ last = [op |-> "none"]
    /\ lastSet = NoFn
    /\ hist = NoHist
    /\ worldMap = 1
    /\ current_map_id = NoMapId
    /\ nav = NavIdle
    /\ talk = TalkIdle
    /\ npcs_data = <<>>
    /\ monsters_data = <<>>
    /\ quest = QuestIdle

SearchNpcLocation(npc_vnum, outcome) ==
    LET r == search_npc_location(files, mapFiles, npc_vnum, outcome)
        arg == LocArg(npc_vnum)
        eff == IF r.sets = <<>> THEN "none" ELSE outcome
    IN  /\ files' = r.files
        /\ last' = [op |-> "search", arg |-> arg, result |-> r.result,
                    hit |-> r.hit, loads |-> r.loads, sets |-> r.sets,
                    changed |-> (r.files # files),
                    outcome |-> eff, before |-> Before(arg)]
        /\ hist' = HistAfter(arg, r, outcome,
                             IF r.result = PyNone THEN "absent" ELSE "found")
        /\ UNCHANGED <<mapFiles, lastSet>>
        /\ UNCHANGED <<navVars, questVars>>

GetPathfinding(from_map, to_map, response, outcome) ==
    LET r == get_pathfinding(files, from_map, to_map, response, outcome)
        arg == RouteArg(from_map, to_map)
        eff == IF r.sets = <<>> THEN "none" ELSE outcome
    IN  /\ files' = r.files
        /\ last' = [op |-> "route", arg |-> arg, result |-> r.result,
                    hit |-> r.hit, called |-> r.called, sets |-> r.sets,
                    changed |-> (r.files # files),
                    response |-> IF r.called THEN response ELSE <<"not_called">>,
                    outcome |-> eff, before |-> Before(arg)]
        /\ hist' = HistAfter(arg, r, outcome,
                             IF ~r.called THEN "hit"
                             ELSE IF ServiceFailed(response) THEN "failed"
                             ELSE "fetched")
        /\ UNCHANGED <<mapFiles, lastSet>>
        /\ UNCHANGED <<navVars, questVars>>

\* The map folder is edited between two calls.
ChangeMapFile(map_id, content) ==
    /\ mapFiles[map_id] # content
    /\ mapFiles' = [mapFiles EXCEPT ![map_id] = content]
    /\ last' = [op |-> "map_change"]
    /\ UNCHANGED <<files, lastSet, hist>>
    /\ UNCHANGED <<navVars, questVars>>

\* The location resolver over a map folder that changes between calls
NextLoc ==
    \/ \E v \in Vnums, o \in WriteOutcomes : SearchNpcLocation(v, o)
    \/ \E m \in 1..MapCount, c \in MapFileChoices : ChangeMapFile(m, c)

SpecLoc == Init /\ [][NextLoc]_vars

\* The route provider over a routing service that answers freely
NextRoute ==
    \E p \in RoutePairs, o \in WriteOutcomes :
       \E resp \in RouteResponses(p[1], p[2]) :
          GetPathfinding(p[1], p[2], resp, o)

SpecRoute == Init /\ [][NextRoute]_vars

\* Both lookups interleaved, over fewer inputs: one NPC, one route pair, a
\* service that answers with a route, with an empty route or with an error,
\* and map files that come and go.
BothResponses(from_map, to_map) ==
    { HttpOk(PathBody(<<from_map, to_map>>)),
      HttpOk(PathBody(<<>>)),
      <<"status", 500, <<"garbage">>>> }

BothMapFileChoices ==
    { <<"missing">>,
      MapData(<<Npc(2, 1, 1), Npc(1, 2, 3), Npc(1, 6, 7)>>, <<>>) }

BothOutcomes == {"ok", "open_failed"}

Next ==
    \/ \E v \in Vnums, o \in BothOutcomes : SearchNpcLocation(v, o)
    \/ \E o \in BothOutcomes : \E resp \in BothResponses(1, 2) :
          GetPathfinding(1, 2, resp, o)
    \/ \E m \in 1..MapCount, c \in BothMapFileChoices : ChangeMapFile(m, c)

Spec == Init /\ [][Next]_vars

\* Both lookups with every outcome of the cache write, over a routing
\* service that answers with a route or with an error and a map folder where
\* the files of the first two maps come and go.
MissResponses(from_map, to_map) ==
    { HttpOk(PathBody(<<from_map, to_map>>)),
      <<"status", 500, <<"garbage">>>> }

MissMaps == {1, 2}

NextMiss ==
    \/ \E v \in Vnums, o \in WriteOutcomes : SearchNpcLocation(v, o)
    \/ \E o \in WriteOutcomes : \E resp \in MissResponses(1, 2) :
          GetPathfinding(1, 2, resp, o)
    \/ \E m \in MissMaps, c \in BothMapFileChoices : ChangeMapFile(m, c)

SpecMiss == Init /\ [][NextMiss]_vars

-----------------------------------------------------------------------------
(* travel_to_map as a step machine                                         *)
(*   start   line 368  update_position, already-at-destination test        *)
(*   route   line 375  get_pathfinding, usable-route test                  *)
(*   hop     line 390  update_position, desync test                        *)
(*   desync  line 395  about to re-enter travel_to_map(target_map)         *)
(*   portal  line 398  get_portal_to_next_map                              *)
(*   walk    line 423  client walk command                                 *)
(*   walked  line 425  update_position after the settle delay              *)
(*   final   line 411  update_position, arrival test                       *)
(*   done              returned nav.result                                 *)
(*   raised            left by RecursionError                              *)
(* nav.polls counts the update_position calls of the invocation; a walk    *)
(* record keeps the hop index, the position held and the poll count at the *)
(* time of the command.                                                    *)

\* Maps the player can be on, and the targets asked for
WorldMaps == {1, 2, 3}
NavTargets == {3}

\* The map files during navigation: map 1 has two portals to map 2, map 2
\* leads to 1 and 3, map 3 has no file.
NavMapFiles ==
    << MapData(<<>>, <<Portal(2, 10, 10), Portal(2, 20, 20)>>),
       MapData(<<>>, <<Portal(1, 30, 30), Portal(3, 40, 40)>>),
       <<"missing">> >>

\* The same folder with the file of map 2 gone
NavMapFilesNoMap2 == [NavMapFiles EXCEPT ![2] = <<"missing">>]

NavMapFolders == {NavMapFiles, NavMapFilesNoMap2}

\* Answers of the routing service during navigation
NavResponses(from_map, to_map) ==
    { HttpOk(PathBody(<<1, 2, 3>>)), <<"status", 403, <<"garbage">>>> }
    \cup (IF from_map = NoMapId
          THEN {}
          ELSE { HttpOk(PathBody(<<from_map, to_map>>)),
                 HttpOk(PathBody(<<from_map>>)) })

InitNav ==
    /\ files = NoFiles
    /\ mapFiles \in NavMapFolders
    /\ last = [op |-> "none"]
    /\ lastSet = NoFn
    /\ hist = NoHist
    /\ worldMap \in WorldMaps
    /\ current_map_id \in {NoMapId, worldMap}   \* update_position in __init__
    /\ nav = NavIdle
    /\ talk = TalkIdle
    /\ npcs_data = <<>>
    /\ monsters_data = <<>>
    /\ quest = QuestIdle

Returned(n, result) == [n EXCEPT !.pc = "done", !.result = result]

\* (mutant) the loop does not advance to the next hop
AfterHop_stay(n) ==
    [n EXCEPT !.i = IF n.i = 0 THEN 1 ELSE n.i, !.portal_pos = PyNone,
              !.pc = "hop"]

\* After the walk of hop i: the next hop, or the arrival test after the last
AfterHop(n) ==
    [n EXCEPT !.i = n.i + 1, !.portal_pos = PyNone,
              !.pc = IF n.i + 1 > Len(n.path[2]) - 1 THEN "final" ELSE "hop"]

TravelCall(target_map) ==
    /\ nav.pc \in {"idle", "done", "raised"}
    /\ nav' = [NavIdle EXCEPT !.pc = "start", !.target_map = target_map]
    /\ UNCHANGED <<questVars, dataVars, talk, worldMap, current_map_id>>

\* lines 368-372
PollStart(poll_ok) ==
    /\ nav.pc = "start"
    /\ LET cur == update_position(current_map_id, worldMap, poll_ok) IN
       /\ current_map_id' = cur
       /\ nav' = LET n == [nav EXCEPT !.entryMap = cur, !.polls = @ + 1] IN
                 IF AtDestination(cur, nav.target_map)
                 THEN Returned(n, TRUE)
                 ELSE [n EXCEPT !.pc = "route"]
    /\ UNCHANGED <<questVars, dataVars, talk, worldMap>>

\* lines 375-378
GetRoute(response, outcome) ==
    /\ nav.pc = "route"
    /\ LET r == get_pathfinding(files, current_map_id, nav.target_map,
                                response, outcome)
           n == [nav EXCEPT !.requested = <<current_map_id, nav.target_map>>,
                            !.path = r.result]
       IN  /\ files' = r.files
           /\ nav' = IF ~RouteUsable(r.result)
                     THEN Returned(n, FALSE)
                     ELSE AfterHop([n EXCEPT !.i = 0])
    /\ UNCHANGED <<questVars, mapFiles, last, lastSet, hist, worldMap, current_map_id, talk>>

\* lines 390-391
HopPoll(poll_ok) ==
    /\ nav.pc = "hop"
    /\ LET cur == update_position(current_map_id, worldMap, poll_ok) IN
       /\ current_map_id' = cur
       /\ nav' = [nav EXCEPT !.polls = @ + 1,
                              !.pc = IF Desynced(cur, Hop(nav.path, nav.i))
                                     THEN "desync" ELSE "portal"]
    /\ UNCHANGED <<questVars, dataVars, talk, worldMap>>

\* line 395: return self.travel_to_map(target_map); the caller only passes
\* the nested result on, so the nested call replaces it
Restart ==
    /\ nav.pc = "desync"
    /\ nav.depth < MaxDepth
    /\ nav' = [NavIdle EXCEPT !.pc = "start", !.target_map = nav.target_map,
                              !.depth = nav.depth + 1,
                              !.cause = [live |-> current_map_id,
                                         hop |-> nav.i, path |-> nav.path]]
    /\ UNCHANGED <<questVars, dataVars, talk, worldMap, current_map_id>>

\* line 395 at the recursion limit: RecursionError is raised.  It leaves
\* travel_to_map when raised by the call of line 395 itself; raised inside
\* the try block of get_pathfinding it is caught there, the route is [] and
\* travel_to_map returns False (line 378).
RecursionLimit(caught) ==
    /\ nav.pc = "desync"
    /\ nav.depth = MaxDepth
    /\ nav' = IF caught THEN Returned(nav, FALSE) ELSE [nav EXCEPT !.pc = "raised"]
    /\ UNCHANGED <<questVars, dataVars, talk, worldMap, current_map_id>>

\* lines 398-402
FindPortal ==
    /\ nav.pc = "portal"
    /\ LET portal_pos == get_portal_to_next_map(mapFiles, Hop(nav.path, nav.i),
                                                Hop(nav.path, nav.i + 1))
       IN  nav' = IF portal_pos = PyNone
                  THEN Returned(nav, FALSE)
                  ELSE [nav EXCEPT !.pc = "walk", !.portal_pos = portal_pos]
    /\ UNCHANGED <<questVars, dataVars, talk, worldMap, current_map_id>>

\* walk_to, lines 422-423: the walk command; when it raises, walk_to skips
\* its update_position and travel_to_map goes on with the next hop
WalkCommand(sent) ==
    /\ nav.pc = "walk"
    /\ LET n == [nav EXCEPT !.walks =
                    Append(@, [from |-> Hop(nav.path, nav.i),
                               to |-> Hop(nav.path, nav.i + 1),
                               x |-> nav.portal_pos[1], y |-> nav.portal_pos[2],
                               hop |-> nav.i, seen |-> current_map_id,
                               polls |-> nav.polls, sent |-> sent])]
       IN  nav' = IF sent THEN [n EXCEPT !.pc = "walked"] ELSE AfterHop(n)
    /\ UNCHANGED <<questVars, dataVars, talk, worldMap, current_map_id>>

\* walk_to, lines 424-425, then line 409
WalkPoll(poll_ok) ==
    /\ nav.pc = "walked"
    /\ current_map_id' = update_position(current_map_id, worldMap, poll_ok)
    /\ nav' = AfterHop([nav EXCEPT !.polls = @ + 1])
    /\ UNCHANGED <<questVars, dataVars, talk, worldMap>>

\* lines 411-417
FinalPoll(poll_ok) ==
    /\ nav.pc = "final"
    /\ LET cur == update_position(current_map_id, worldMap, poll_ok) IN
       /\ current_map_id' = cur
       /\ nav' = Returned([nav EXCEPT !.polls = @ + 1],
                           AtDestination(cur, nav.target_map))
    /\ UNCHANGED <<questVars, dataVars, talk, worldMap>>

\* The game client: the player, walking to the commanded coordinates on the
\* map it is on, takes the portal found there
PortalAt(maps, map_id, x, y) ==
    LET map_data == load_map_file(maps, map_id) IN
    IF map_data = PyNone
    THEN NoMapId
    ELSE LET At(p) == p.source_map_x = x /\ p.source_map_y = y
             i == FirstIndex(map_data[2].portals, At)
         IN  IF i = 0 THEN NoMapId ELSE map_data[2].portals[i].destination_map_id

Arrive ==
    /\ nav.pc = "walked"
    /\ LET dest == PortalAt(mapFiles, worldMap, nav.portal_pos[1], nav.portal_pos[2])
       IN  /\ dest # NoMapId
           /\ worldMap' = dest
    /\ UNCHANGED <<questVars, dataVars, talk, current_map_id, nav>>

\* The game client: the player is moved by something else (teleport, death,
\* a portal taken late)
WorldMove(map_id) ==
    /\ map_id # worldMap
    /\ worldMap' = map_id
    /\ UNCHANGED <<questVars, dataVars, talk, current_map_id, nav>>

NavOutcomes == {"ok", "open_failed"}

NextNav ==
    \/ \E t \in NavTargets : TravelCall(t)
    \/ \E ok \in BOOLEAN : PollStart(ok)
    \/ \E o \in NavOutcomes :
          \E resp \in NavResponses(current_map_id, nav.target_map) :
             GetRoute(resp, o)
    \/ \E ok \in BOOLEAN : HopPoll(ok)
    \/ Restart
    \/ \E caught \in BOOLEAN : RecursionLimit(caught)
    \/ FindPortal
    \/ \E sent \in BOOLEAN : WalkCommand(sent)
    \/ \E ok \in BOOLEAN : WalkPoll(ok)
    \/ \E ok \in BOOLEAN : FinalPoll(ok)
    \/ Arrive
    \/ \E m \in WorldMaps : WorldMove(m)

SpecNav == InitNav /\ [][NextNav]_vars

\* travel_to_map with a player whose map changes only by taking the portal
\* a walk command was sent to.  Every step of a running call is taken in
\* the end (the calls to the client and to the service return or raise), and
\* the caller goes on calling.
NextOwn ==
    \/ \E t \in NavTargets : TravelCall(t)
    \/ \E ok \in BOOLEAN : PollStart(ok)
    \/ \E o \in NavOutcomes :
          \E resp \in NavResponses(current_map_id, nav.target_map) :
             GetRoute(resp, o)
    \/ \E ok \in BOOLEAN : HopPoll(ok)
    \/ Restart
    \/ \E caught \in BOOLEAN : RecursionLimit(caught)
    \/ FindPortal
    \/ \E sent \in BOOLEAN : WalkCommand(sent)
    \/ \E ok \in BOOLEAN : WalkPoll(ok)
    \/ \E ok \in BOOLEAN : FinalPoll(ok)
    \/ Arrive

SpecNavOwn == InitNav /\ [][NextOwn]_vars /\ WF_vars(NextOwn)

-----------------------------------------------------------------------------
(* go_to_npc_and_talk as a step machine over travel_to_map                 *)
(*   name        line 442  find_npc_by_name                                *)
(*   locate      line 452  search_npc_location                             *)
(*   travel      line 459  travel_to_map is called                         *)
(*   travelling            travel_to_map runs (the steps of nav)           *)
(*   coords      line 463  find_npc_on_map                                 *)
(*   walk        line 471  walk_to: the walk command                       *)
(*   walkpoll    line 425  walk_to: update_position                        *)
(*   scene       line 475  scene_manager.get_npcs                          *)
(*   packet      line 485  packet_manager.send                             *)
(*   done                  returned talk.result                            *)
(*   raised                left by the exception travel_to_map raised      *)

\* npcs.json as loaded by load_all_data, in iteration order
NpcsData ==
    << NpcInfo(1, <<"M", "i", "m", "i">>), NpcInfo(2, <<"K", "o">>) >>

\* Names asked for: two that are in npcs.json and one that is not
TalkNames == { <<"m", "i">>, <<"K", "o">>, <<"z">> }

\* The map folder during a conversation: NPC 1 stands on map 2 and on
\* map 3, and NPC 2 on no map
TalkMapFiles ==
    << MapData(<<>>, <<Portal(2, 10, 10)>>),
       MapData(<<Npc(1, 5, 6)>>, <<Portal(1, 30, 30)>>),
       MapData(<<Npc(1, 8, 9)>>, <<>>) >>

\* The file of map 2 is edited: the NPC is taken out or put back
TalkMap2Choices ==
    { MapData(<<Npc(1, 5, 6)>>, <<Portal(1, 30, 30)>>),
      MapData(<<>>, <<Portal(1, 30, 30)>>) }

\* Answers of the routing service during a conversation
TalkResponses(from_map, to_map) ==
    { <<"status", 403, <<"garbage">>>> }
    \cup (IF from_map = NoMapId
          THEN {}
          ELSE { HttpOk(PathBody(<<from_map, to_map>>)) })

\* An NPC of the visible scene
SceneNpc(vnum, id) == [vnum |-> vnum, id |-> id]

\* What scene_manager.get_npcs gives: it raises, or it lists the NPCs of
\* the scene (entity id 0 included)
SceneAnswers ==
    { <<"raises">>,
      <<"npcs", <<>>>>,
      <<"npcs", <<SceneNpc(2, 5), SceneNpc(1, 7), SceneNpc(1, 8)>>>>,
      <<"npcs", <<SceneNpc(1, 0)>>>> }

InitTalk ==
    /\ files = NoFiles
    /\ mapFiles = TalkMapFiles
    /\ last = [op |-> "none"]
    /\ lastSet = NoFn
    /\ hist = NoHist
    /\ worldMap \in {1, 2}
    /\ current_map_id \in {NoMapId, worldMap}   \* update_position in __init__
    /\ nav = NavIdle
    /\ talk = TalkIdle
    /\ npcs_data = NpcsData
    /\ monsters_data = <<>>
    /\ quest = QuestIdle

Began(t, step) == [t EXCEPT !.steps = Append(@, step)]

TalkReturned(t, result) == [t EXCEPT !.pc = "done", !.result = result]

TalkCall(npc_name) ==
    /\ talk.pc \in {"idle", "done", "raised"}
    /\ talk' = [TalkIdle EXCEPT !.pc = "name", !.npc_name = npc_name]
    /\ UNCHANGED <<questVars, dataVars, worldMap, current_map_id, nav>>

\* lines 442-447
TalkFindNpc ==
    /\ talk.pc = "name"
    /\ LET npc_info == find_npc_by_name(npcs_data, talk.npc_name)
           t == Began(talk, "name")
       IN  talk' = IF npc_info = PyNone
                   THEN TalkReturned(t, FALSE)
                   ELSE [t EXCEPT !.pc = "locate", !.npc_vnum = npc_info[2].id]
    /\ UNCHANGED <<questVars, dataVars, worldMap, current_map_id, nav>>

\* lines 452-455
TalkLocate(outcome) ==
    /\ talk.pc = "locate"
    /\ LET r == search_npc_location(files, mapFiles, talk.npc_vnum, outcome)
           t == [Began(talk, "locate") EXCEPT !.npc_map = r.result]
       IN  /\ files' = r.files
           /\ talk' = IF ~Truthy(r.result)
                      THEN TalkReturned(t, FALSE)
                      ELSE [t EXCEPT !.pc = "travel"]
    /\ UNCHANGED <<questVars, mapFiles, last, lastSet, hist, worldMap, current_map_id, nav>>

\* line 459: travel_to_map(npc_map) is entered
TalkTravel ==
    /\ talk.pc = "travel"
    /\ talk' = [Began(talk, "travel") EXCEPT !.pc = "travelling"]
    /\ nav' = [NavIdle EXCEPT !.pc = "start", !.target_map = talk.npc_map[2]]
    /\ UNCHANGED <<questVars, dataVars, worldMap, current_map_id>>

\* lines 459-460: travel_to_map has returned, or has raised
TalkTravelReturn ==
    /\ talk.pc = "travelling"
    /\ nav.pc \in {"done", "raised"}
    /\ talk' = IF nav.pc = "raised"
               THEN [talk EXCEPT !.pc = "raised", !.travelled = "raised"]
               ELSE IF ~nav.result
               THEN TalkReturned([talk EXCEPT !.travelled = "false"], FALSE)
               ELSE [talk EXCEPT !.pc = "coords", !.travelled = "true"]
    /\ UNCHANGED <<questVars, dataVars, worldMap, current_map_id, nav>>

\* lines 463-466
TalkFindCoords ==
    /\ talk.pc = "coords"
    /\ LET npc_pos == find_npc_on_map(mapFiles, talk.npc_map[2], talk.npc_vnum)
           t == Began(talk, "coords")
       IN  talk' = IF npc_pos = PyNone
                   THEN TalkReturned(t, FALSE)
                   ELSE [t EXCEPT !.pc = "walk", !.npc_pos = npc_pos]
    /\ UNCHANGED <<questVars, dataVars, worldMap, current_map_id, nav>>

\* line 471, walk_to lines 422-423: the walk command; when it raises,
\* walk_to prints the error and go_to_npc_and_talk goes on
TalkWalk(sent) ==
    /\ talk.pc = "walk"
    /\ talk' = [Began(talk, "walk") EXCEPT
                  !.walkSent = IF sent THEN "sent" ELSE "raised",
                  !.pc = IF sent THEN "walkpoll" ELSE "scene"]
    /\ UNCHANGED <<questVars, dataVars, worldMap, current_map_id, nav>>

\* walk_to lines 424-425
TalkWalkPoll(poll_ok) ==
    /\ talk.pc = "walkpoll"
    /\ current_map_id' = update_position(current_map_id, worldMap, poll_ok)
    /\ talk' = [talk EXCEPT !.pc = "scene"]
    /\ UNCHANGED <<questVars, dataVars, worldMap, nav>>

\* lines 474-490: the scene is fetched and searched for the vnum; the
\* entity id found is tested for truth
TalkScene(answer) ==
    /\ talk.pc = "scene"
    /\ LET t == Began(talk, "scene") IN
       talk' =
          IF answer[1] = "raises"
          THEN TalkReturned(t, FALSE)
          ELSE LET Is(npc) == npc.vnum = talk.npc_vnum
                   i == FirstIndex(answer[2], Is)
                   npc_entity_id == IF i = 0 THEN PyNone ELSE PyInt(answer[2][i].id)
                   u == [t EXCEPT !.seenInScene = (i # 0)]
               IN  IF Truthy(npc_entity_id)
                   THEN [u EXCEPT !.pc = "packet",
                                  !.packets = Append(@, npc_entity_id[2])]
                   ELSE TalkReturned(u, FALSE)
    /\ UNCHANGED <<questVars, dataVars, worldMap, current_map_id, nav>>

\* lines 485-487, 492-494: the packet "npc_req 2 <id>" is sent; when the
\* send raises, the except clause returns False
TalkSend(sent) ==
    /\ talk.pc = "packet"
    /\ talk' = TalkReturned(Began(talk, "packet"), sent)
    /\ UNCHANGED <<questVars, dataVars, worldMap, current_map_id, nav>>

NextTalk ==
    \/ \E n \in TalkNames : TalkCall(n)
    \/ TalkFindNpc
    \/ \E o \in BothOutcomes : TalkLocate(o)
    \/ TalkTravel
    \/ \E ok \in BOOLEAN : PollStart(ok)
    \/ \E resp \in TalkResponses(current_map_id, nav.target_map) :
          GetRoute(resp, "ok")
    \/ \E ok \in BOOLEAN : HopPoll(ok)
    \/ Restart
    \/ \E caught \in BOOLEAN : RecursionLimit(caught)
    \/ FindPortal
    \/ \E sent \in BOOLEAN : WalkCommand(sent)
    \/ \E ok \in BOOLEAN : WalkPoll(ok)
    \/ \E ok \in BOOLEAN : FinalPoll(ok)
    \/ Arrive
    \/ \E m \in WorldMaps : WorldMove(m)
    \/ TalkTravelReturn
    \/ TalkFindCoords
    \/ \E sent \in BOOLEAN : TalkWalk(sent)
    \/ \E ok \in BOOLEAN : TalkWalkPoll(ok)
    \/ \E a \in SceneAnswers : TalkScene(a)
    \/ \E sent \in BOOLEAN : TalkSend(sent)
    \/ \E c \in TalkMap2Choices : ChangeMapFile(2, c)

SpecTalk == InitTalk /\ [][NextTalk]_vars

-----------------------------------------------------------------------------
(* Direct use of the CacheManager interface                                *)

\* Values handed to CacheManager.set: all of them JSON-serializable.
CacheValues ==
    { PyDict((PyStr("path") :> PyList(<<PyInt(1), PyInt(2)>>))),
      PyTuple(<<PyInt(1), PyInt(2)>>),
      PyDict((PyInt(1) :> PyStr("a"))) }

\* (cache type, key) pairs used by the direct calls
CacheSlots ==
    { <<"npc_locations", "a">>, <<"npc_locations", "b">>, <<"pathfinding", "a">> }

InitCache ==
    /\ files = NoFiles
    /\ mapFiles = <<>>
    /\ last = [op |-> "none"]
    /\ lastSet = NoFn
    /\ hist = NoHist
    /\ worldMap = 1
    /\ current_map_id = NoMapId
    /\ nav = NavIdle
    /\ talk = TalkIdle
    /\ npcs_data = <<>>
    /\ monsters_data = <<>>
    /\ quest = QuestIdle

CacheSetCall(cache_type, key, value, outcome) ==
    /\ files' = CacheManager_set(files, cache_type, key, value, outcome)
    /\ lastSet' = (<<cache_type, key>> :>
                      [value |-> value, persisted |-> (outcome = "ok")]) @@ lastSet
    /\ last' = [op |-> "cache_set", cache_type |-> cache_type, key |-> key]
    /\ UNCHANGED <<mapFiles, hist>>
    /\ UNCHANGED <<navVars, questVars>>

CacheGetCall(cache_type, key) ==
    /\ last' = [op |-> "cache_get", cache_type |-> cache_type, key |-> key,
                result |-> CacheManager_get(files, cache_type, key)]
    /\ UNCHANGED <<files, mapFiles, lastSet, hist>>
    /\ UNCHANGED <<navVars, questVars>>

CacheExistsCall(cache_type, key) ==
    /\ last' = [op |-> "cache_exists", cache_type |-> cache_type, key |-> key,
                result |-> CacheManager_exists(files, cache_type, key)]
    /\ UNCHANGED <<files, mapFiles, lastSet, hist>>
    /\ UNCHANGED <<navVars, questVars>>

NextCache ==
    \/ \E s \in CacheSlots, v \in CacheValues, o \in WriteOutcomes :
          CacheSetCall(s[1], s[2], v, o)
    \/ \E s \in CacheSlots : CacheGetCall(s[1], s[2])
    \/ \E s \in CacheSlots : CacheExistsCall(s[1], s[2])

SpecCache == InitCache /\ [][NextCache]_vars

-----------------------------------------------------------------------------
(* Claims about the CacheManager interface                                 *)

\* Values that JSON represents natively: str-keyed dicts, lists, strings,
\* integers and None, nested.
RECURSIVE JsonNative(_)
JsonNative(v) ==
    CASE v[1] \in {"int", "str", "none"} -> TRUE
      [] v[1] = "list" -> \A i \in 1..Len(v[2]) : JsonNative(v[2][i])
      [] v[1] = "tuple" -> FALSE
      [] v[1] = "dict" ->
            \A k \in DOMAIN v[2] : k[1] = "str" /\ JsonNative(v[2][k])

LastGetSlot == <<last.cache_type, last.key>>

\* C1 as stated: every get that follows a set on the same (type, key), with
\* no set in between, returns a value equal to the value handed to set.
C1_SetThenGetReturnsValue ==
    (last.op = "cache_get" /\ LastGetSlot \in DOMAIN lastSet)
        => last.result = lastSet[LastGetSlot].value

\* C1 amended: when the write of set persisted, every get that follows it
\* (first or repeated, no set in between) returns the JSON image of the
\* value: the value itself when it is built from str-keyed dicts, lists,
\* strings, integers and None; with tuples as lists and dict keys as
\* strings otherwise.
C1_PersistedSetThenGet ==
    (last.op = "cache_get" /\ LastGetSlot \in DOMAIN lastSet
                          /\ lastSet[LastGetSlot].persisted)
        => /\ last.result = json_load(json_dump(lastSet[LastGetSlot].value))
           /\ JsonNative(lastSet[LastGetSlot].value)
                 => last.result = lastSet[LastGetSlot].value

\* A get returned a JSON-native value written by a persisted set on a slot,
\* while another slot of the same cache type holds a different value.
C1_Witness ==
    /\ last.op = "cache_get"
    /\ LastGetSlot \in DOMAIN lastSet
    /\ lastSet[LastGetSlot].persisted
    /\ JsonNative(lastSet[LastGetSlot].value)
    /\ last.result = lastSet[LastGetSlot].value
    /\ \E p \in DOMAIN lastSet :
          p # LastGetSlot /\ lastSet[p].persisted
                          /\ lastSet[p].value # lastSet[LastGetSlot].value

-----------------------------------------------------------------------------
(* Claims about search_npc_location (SpecLoc)                              *)

LastVnum == last.arg[2]
Range(n) == [i \in 1..n |-> i]
HasNpc(map_id, npc_vnum) ==
    /\ mapFiles[map_id][1] = "data"
    /\ \E i \in 1..Len(mapFiles[map_id][2].npcs) :
          mapFiles[map_id][2].npcs[i].vnum = npc_vnum

\* C2 as stated: once a search for v has returned map m, every later search
\* for v returns m and loads no map file.
C2_ReturnedOnceReturnedEver ==
    (last.op = "search" /\ last.before.returned # PyNone)
        => /\ last.result = last.before.returned
           /\ last.loads = <<>>

\* C2 amended: once a search for v has returned map m and left its record
\* in the cache (its write persisted), every later search for v returns m
\* and loads no map file, whatever the map files hold by then.
C2_MemoizedOncePersisted ==
    (last.op = "search" /\ last.before.stored # PyNone)
        => /\ last.result = last.before.stored[2][PyStr("map_id")]
           /\ last.loads = <<>>

\* A search answered from the cache while the map files no longer place the
\* vnum on the cached map.
C2_Witness ==
    /\ last.op = "search"
    /\ last.before.stored # PyNone
    /\ last.before.returned = last.result
    /\ last.result[1] = "int"
    /\ last.loads = <<>>
    /\ ~HasNpc(last.result[2], LastVnum)
    /\ \E m \in 1..MapCount : HasNpc(m, LastVnum)

C4_ScanFirstMatch ==
    (last.op = "search" /\ ~last.hit /\ last.result # PyNone)
        => LET m == last.result[2]
               v == LastVnum
               npcs == mapFiles[m][2].npcs
               first == CHOOSE i \in 1..Len(npcs) :
                          npcs[i].vnum = v /\ \A j \in 1..(i - 1) : npcs[j].vnum # v
               record == PyDict( (PyStr("map_id") :> PyInt(m))
                              @@ (PyStr("npc_vnum") :> PyInt(v))
                              @@ (PyStr("x") :> PyInt(npcs[first].x))
                              @@ (PyStr("y") :> PyInt(npcs[first].y)) )
           IN  /\ last.result[1] = "int"
               /\ m \in 1..MapCount
               /\ HasNpc(m, v)
               /\ \A k \in 1..(m - 1) : ~HasNpc(k, v)
               /\ last.loads = Range(m)
               /\ last.sets = <<[cache_type |-> "npc_locations",
                                 key |-> "npc_location_" \o IntToStr(v),
                                 value |-> record]>>
               /\ last.outcome = "ok"
                    => CacheManager_get(files, "npc_locations",
                                        "npc_location_" \o IntToStr(v)) = record

\* A miss that skipped an unloadable map and a map without the NPC, and
\* matched on map 3 a placement that is neither the first entry of the list
\* nor the last placement of the vnum.
C4_Witness ==
    /\ last.op = "search"
    /\ ~last.hit
    /\ last.result = PyInt(3)
    /\ last.loads = <<1, 2, 3>>
    /\ mapFiles[1][1] # "data"
    /\ mapFiles[2][1] = "data"
    /\ Len(mapFiles[3][2].npcs) = 3
    /\ last.outcome = "ok"

-----------------------------------------------------------------------------
(* Claims about get_pathfinding (SpecRoute)                                *)

LastRouteKey == MapStr(last.arg[2]) \o "_to_" \o MapStr(last.arg[3])

\* C5: a get_pathfinding(B, A) call for which no get_pathfinding(B, A) call
\* has stored a route is a cache miss and contacts the routing service,
\* whatever is cached for other pairs, (A, B) included.
C5_DirectionalKeys ==
    (last.op = "route" /\ last.before.stored = PyNone)
        => ~last.hit /\ last.called

\* get_pathfinding(2, 1) contacted the service while the cache folder held
\* the entry of (1, 2) and nothing else.
C5_Witness ==
    /\ last.op = "route"
    /\ last.arg = RouteArg(2, 1)
    /\ last.called
    /\ ~last.changed
    /\ RouteArg(1, 2) \in DOMAIN hist.stored
    /\ DOMAIN files = {"pathfinding/1_to_2.json"}

\* C6: a get_pathfinding call whose service call fails returns the empty
\* route and leaves the cache folder as it was (no write is attempted), and
\* the call that follows a failed call for the same pair contacts the
\* service again.
C6_FailureNotCached ==
    /\ (last.op = "route" /\ last.called /\ ServiceFailed(last.response))
          => /\ last.result = PyList(<<>>)
             /\ last.sets = <<>>
             /\ ~last.changed
    /\ (last.op = "route" /\ last.before.prev = "failed")
          => last.called

\* A call that followed a failed call for the same pair fetched a route.
C6_Witness ==
    /\ last.op = "route"
    /\ last.before.prev = "failed"
    /\ last.called
    /\ ~ServiceFailed(last.response)
    /\ Truthy(last.result)

-----------------------------------------------------------------------------
(* Claims about both lookups (Spec)                                        *)

\* C7: as long as every cache write made by the lookups has persisted, no
\* argument has had more than one write, and a lookup of an argument whose
\* value was stored before is answered from that first stored value: no
\* write, no map file loaded, no routing-service call, the stored map id
\* (search) or the stored path (route) returned.
C7_WrittenOnceReadEver ==
    hist.allPersisted =>
        /\ \A a \in DOMAIN hist.writes : hist.writes[a] = "once"
        /\ (last.op \in {"search", "route"} /\ last.before.stored # PyNone)
              => /\ last.hit
                 /\ last.sets = <<>>
                 /\ ~last.changed
                 /\ last.op = "search"
                      => /\ last.result = last.before.stored[2][PyStr("map_id")]
                         /\ last.loads = <<>>
                 /\ last.op = "route"
                      => /\ last.result = last.before.stored[2][PyStr("path")]
                         /\ ~last.called

\* With all writes persisted and a location stored as well, a route lookup
\* was answered from the stored empty path without a service call (the
\* service answers freely at every call).
C7_Witness ==
    /\ hist.allPersisted
    /\ last.op = "route"
    /\ last.before.stored # PyNone
    /\ ~last.called
    /\ last.result = PyList(<<>>)
    /\ LocArg(1) \in DOMAIN hist.stored

-----------------------------------------------------------------------------
(* Claims about travel_to_map (SpecNav)                                    *)
(* nav describes one invocation: a desync restart begins a new one, with   *)
(* its own walks and route request.                                        *)

RouteLength(path) == IF path[1] = "list" THEN Len(path[2]) ELSE 0

\* C8: an invocation whose entry poll left current_map_id equal to the
\* target has returned True, with no walk command and no route request.
C8_AlreadyAtDestination ==
    (nav.pc \notin {"idle", "start"} /\ nav.entryMap = nav.target_map)
        => /\ nav.pc = "done"
           /\ nav.result = TRUE
           /\ nav.walks = <<>>
           /\ nav.requested = <<>>

\* A first-level call found the player on the target and returned True.
C8_Witness ==
    /\ nav.pc = "done"
    /\ nav.depth = 0
    /\ nav.entryMap = nav.target_map
    /\ worldMap = nav.target_map
    /\ nav.result = TRUE
    /\ nav.walks = <<>>

\* C9: an invocation that obtained a route of fewer than 2 entries has
\* returned False without a walk command.
C9_NoRouteNoWalk ==
    (nav.requested # <<>> /\ RouteLength(nav.path) < 2)
        => /\ nav.pc = "done"
           /\ nav.result = FALSE
           /\ nav.walks = <<>>

\* A call got the single-map route [current map] and returned False.
C9_Witness ==
    /\ nav.pc = "done"
    /\ nav.requested # <<>>
    /\ nav.path = PyPath(<<nav.requested[1]>>)
    /\ nav.result = FALSE
    /\ nav.walks = <<>>

\* C10 as stated: after a desync, the restarted invocation requests a route
\* from the map whose poll revealed the desync to the target.
C10_DesyncRequestsRouteFromLive ==
    (nav.depth > 0 /\ nav.pc \notin {"start", "route"})
        => nav.requested = <<nav.cause.live, nav.target_map>>

\* C10 amended: a hop is only pursued (portal lookup, walk command) while
\* the poll before it reported the hop's source map; after a desync the
\* invocation restarts without the old route and its walks, holding the map
\* that revealed the desync until it polls again,
\* and then either that poll reports the target and it returns True with no
\* route request, or the one route it requests is from the map that poll
\* reported to the target; its walk commands are for hops of that route.
C10_DesyncRestarts ==
    /\ nav.pc \in {"portal", "walk"}
          => current_map_id = Hop(nav.path, nav.i)
    /\ (nav.depth > 0 /\ nav.pc \in {"start", "route"})
          => nav.path = PyNone /\ nav.walks = <<>> /\ nav.requested = <<>>
    /\ (nav.depth > 0 /\ nav.pc = "start")
          => current_map_id = nav.cause.live
    /\ (nav.depth > 0 /\ nav.pc \notin {"start", "route"})
          => IF nav.entryMap = nav.target_map
             THEN nav.pc = "done" /\ nav.result = TRUE /\ nav.requested = <<>>
             ELSE nav.requested = <<nav.entryMap, nav.target_map>>
    /\ nav.depth > 0
          => \A k \in 1..Len(nav.walks) :
                \E h \in 1..(RouteLength(nav.path) - 1) :
                   /\ nav.walks[k].from = Hop(nav.path, h)
                   /\ nav.walks[k].to = Hop(nav.path, h + 1)

\* Route [1, 2, 3], player found on map 2 at the first hop: the restarted
\* invocation requested the route (2, 3).
C10_Witness ==
    /\ nav.depth > 0
    /\ nav.cause.path = PyPath(<<1, 2, 3>>)
    /\ nav.cause.hop = 1
    /\ nav.cause.live = 2
    /\ nav.requested = <<2, 3>>

\* The for loop of the invocation ended: every hop of the route was gone
\* through without a desync or a missing portal
Traversed(n) == RouteLength(n.path) >= 2 /\ n.i = RouteLength(n.path)

\* C11: a travel_to_map call that has returned True left current_map_id (the
\* last observed map) equal to the target, and a call that went through all
\* hops of its route returned True exactly when current_map_id after the
\* final update_position equals the target; restarted invocations included.
C11_TrueOnlyAtTarget ==
    nav.pc = "done"
        => /\ nav.result = TRUE => current_map_id = nav.target_map
           /\ Traversed(nav)
                 => (nav.result = TRUE <=> current_map_id = nav.target_map)

\* After a desync restart a route was walked to its end and the call
\* returned True with the player on the target.
C11_Witness ==
    /\ nav.pc = "done"
    /\ nav.depth > 0
    /\ Traversed(nav)
    /\ nav.walks # <<>>
    /\ nav.result = TRUE
    /\ worldMap = nav.target_map

\* The desync test of hop h has been made in the invocation n
Decided(n, h) ==
    \/ n.i > h
    \/ n.i = h /\ n.pc \in {"desync", "portal", "walk", "walked", "done", "raised"}

\* C12: within one invocation the walk commands are for hops of the route
\* in strictly increasing hop index (so at most one per hop), and once the
\* desync test of hop h + 1 has been made, update_position has been called
\* since the walk command of hop h.
C12_HopsInRouteOrder ==
    \A k \in 1..Len(nav.walks) :
       LET w == nav.walks[k] IN
       /\ w.hop \in 1..(RouteLength(nav.path) - 1)
       /\ w.from = Hop(nav.path, w.hop)
       /\ w.to = Hop(nav.path, w.hop + 1)
       /\ \A j \in 1..(k - 1) : nav.walks[j].hop < w.hop
       /\ Decided(nav, w.hop + 1) => nav.polls > w.polls
       /\ k < Len(nav.walks) => nav.walks[k + 1].polls > w.polls

\* Two walk commands of one invocation, for hop 1 and then hop 2, the
\* second one sent although the first one raised.
C12_Witness ==
    /\ Len(nav.walks) = 2
    /\ nav.walks[1].hop = 1
    /\ nav.walks[2].hop = 2
    /\ ~nav.walks[1].sent
    /\ nav.walks[2].sent

\* The portal list of the file of map m, empty when there is no readable file
PortalsOf(maps, m) ==
    IF m \in DOMAIN maps /\ maps[m][1] = "data" THEN maps[m][2].portals ELSE <<>>

\* Positions in the portal list of map m of the portals leading to map d
PortalsTo(maps, m, d) ==
    {i \in 1..Len(PortalsOf(maps, m)) :
        PortalsOf(maps, m)[i].destination_map_id = d}

\* Whether <<x, y>> are the source coordinates of the first portal of m to d
IsFirstPortal(maps, m, d, x, y) ==
    /\ PortalsTo(maps, m, d) # {}
    /\ LET i == CHOOSE i \in PortalsTo(maps, m, d) :
                    \A j \in PortalsTo(maps, m, d) : i <= j
           p == PortalsOf(maps, m)[i]
       IN  x = p.source_map_x /\ y = p.source_map_y

\* The invocation returned at line 402: hop n.i passed its desync test and
\* the loop did not end
PortalNotFound(n) ==
    /\ n.pc = "done"
    /\ RouteLength(n.path) >= 2
    /\ n.i < RouteLength(n.path)
    /\ current_map_id = Hop(n.path, n.i)

\* C13: every walk command is to the source coordinates of the first portal,
\* in the file of the hop's map, whose destination is the next map of the
\* route; a hop whose map file is missing or has no such portal gets no walk
\* command: travel_to_map has returned False at that hop, with one walk
\* command for each earlier hop and none for a later one.
C13_FirstPortalOrFail ==
    /\ \A k \in 1..Len(nav.walks) :
          IsFirstPortal(mapFiles, nav.walks[k].from, nav.walks[k].to,
                        nav.walks[k].x, nav.walks[k].y)
    /\ nav.pc \in {"walk", "walked"}
          => PortalsTo(mapFiles, Hop(nav.path, nav.i), Hop(nav.path, nav.i + 1)) # {}
    /\ PortalNotFound(nav)
          => /\ PortalsTo(mapFiles, Hop(nav.path, nav.i), Hop(nav.path, nav.i + 1)) = {}
             /\ nav.result = FALSE
             /\ Len(nav.walks) = nav.i - 1
             /\ \A k \in 1..Len(nav.walks) : nav.walks[k].hop < nav.i

\* Route [1, 2, 3] with the file of map 2 missing: the walk of hop 1 went
\* to (10, 10), the first of the two portals of map 1 to map 2, and the call
\* returned False at hop 2 without a second walk command.
C13_Witness ==
    /\ PortalNotFound(nav)
    /\ nav.path = PyPath(<<1, 2, 3>>)
    /\ nav.i = 2
    /\ mapFiles[2] = <<"missing">>
    /\ Len(nav.walks) = 1
    /\ nav.walks[1].x = 10 /\ nav.walks[1].y = 10
    /\ nav.result = FALSE

-----------------------------------------------------------------------------
(* Claims about failed writes and unreadable entries (SpecMiss)            *)

\* The lookup recorded in last did the work again: it read every map file
\* of the scan, or contacted the routing service
Recomputed ==
    \/ last.op = "search" /\ last.loads # <<>>
    \/ last.op = "route" /\ last.called

\* C14: a lookup returns whatever the outcome of its cache write, and the
\* lookup that follows, for the same argument, one whose write failed is a
\* cache miss that scans the maps or calls the routing service again.
C14_FailedWriteRetried ==
    (last.op \in {"search", "route"}
        /\ last.before.prevWrite \in {"open_failed", "write_failed"})
        => ~last.hit /\ Recomputed

\* A search whose write failed after open() was followed by a search of the
\* same NPC that scanned the maps again and found it, and a route lookup had
\* lost its write as well.
C14_Witness ==
    /\ last.op = "search"
    /\ last.before.prevWrite = "write_failed"
    /\ ~last.hit
    /\ last.loads # <<>>
    /\ last.result # PyNone
    /\ Lookup(hist.prevWrite, RouteArg(1, 2), "none") = "open_failed"

\* What the cache folder fs holds at a path
Entry(fs, cache_file) ==
    IF cache_file \in DOMAIN fs THEN fs[cache_file][1] ELSE "absent"

\* The cache folder fs without the file at a path
Without(fs, cache_file) == [p \in DOMAIN fs \ {cache_file} |-> fs[p]]

LocFile == get_cache_file("npc_locations", LocationKey(1))
RouteFile == get_cache_file("pathfinding", RouteKey(1, 2))

-----------------------------------------------------------------------------
(* Claims about the position used by travel_to_map (SpecNav)               *)

\* C16 as stated: at each of the three tests of travel_to_map (already at
\* destination, desync, arrival) the position compared is the one the game
\* client reports at that point.
C16_ComparesLivePosition ==
    [][(nav.pc \in {"start", "hop", "final"} /\ nav'.polls # nav.polls)
          => current_map_id' = worldMap]_vars

-----------------------------------------------------------------------------
(* Claims about termination of travel_to_map (SpecNavOwn)                  *)

\* C17 as stated: with no map change other than by the walk commands of
\* travel_to_map, every invocation returns True or False in the end.
C17_EveryCallReturns == (nav.pc = "start") ~> (nav.pc = "done")

-----------------------------------------------------------------------------
(* Claims about routes too short to walk (SpecRoute)                       *)

\* C18 as stated: the get_pathfinding call that follows, for the same pair,
\* a call that returned fewer than 2 entries contacts the routing service.
C18_ShortRouteNotMemoized ==
    (last.op = "route" /\ last.before.prevShort) => last.called

-----------------------------------------------------------------------------
(* Claims about where walk commands are sent from (SpecNav)                *)

\* C19: every walk command toward the portal of hop (h, n) was issued while
\* current_map_id, the map the player was last observed on, was h, and its
\* coordinates are those of a portal in the file of that map; the walk is
\* only reached with current_map_id equal to the hop's source map.
C19_WalkOnlyFromObservedMap ==
    /\ \A k \in 1..Len(nav.walks) :
          LET w == nav.walks[k] IN
          /\ w.seen # NoMapId
          /\ w.seen = w.from
          /\ \E i \in 1..Len(PortalsOf(mapFiles, w.seen)) :
                /\ PortalsOf(mapFiles, w.seen)[i].source_map_x = w.x
                /\ PortalsOf(mapFiles, w.seen)[i].source_map_y = w.y
                /\ PortalsOf(mapFiles, w.seen)[i].destination_map_id = w.to
    /\ nav.pc = "walk" => current_map_id = Hop(nav.path, nav.i)

\* After a desync on route [1, 2, 3] that found the player on map 2, the
\* restarted invocation sent its first walk command from map 2, to the
\* portal of map 2 that leads to map 3.
C19_Witness ==
    /\ nav.depth > 0
    /\ nav.cause.path = PyPath(<<1, 2, 3>>)
    /\ Len(nav.walks) = 1
    /\ nav.walks[1].seen = 2
    /\ nav.walks[1].to = 3
    /\ nav.walks[1].x = 40 /\ nav.walks[1].y = 40
    /\ nav.walks[1].sent

-----------------------------------------------------------------------------
(* Claims about go_to_npc_and_talk (SpecTalk)                              *)

\* The steps of go_to_npc_and_talk in their order
StepOrder == <<"name", "locate", "travel", "coords", "walk", "scene", "packet">>

\* The steps begun are the first ones of StepOrder, in that order
InOrder(t) ==
    /\ Len(t.steps) <= Len(StepOrder)
    /\ \A k \in 1..Len(t.steps) : t.steps[k] = StepOrder[k]

Has(t, step) == \E k \in 1..Len(t.steps) : t.steps[k] = step

\* pos is a placement of the vnum in the file of map m, as it is or, for
\* the map whose file is edited, as it can be
PlacedOn(m, vnum, pos) ==
    \E c \in (IF m = 2 THEN TalkMap2Choices ELSE {mapFiles[m]}) :
       /\ c[1] = "data"
       /\ \E k \in 1..Len(c[2].npcs) :
             c[2].npcs[k].vnum = vnum /\ pos = <<c[2].npcs[k].x, c[2].npcs[k].y>>

\* The dialogue packet was handed to the client only after travel_to_map
\* returned True for the resolved map and the NPC was found in the file of
\* that map and in the scene
PacketGuarded(t) ==
    t.packets # <<>>
        => /\ t.travelled = "true"
           /\ nav.pc = "done" /\ nav.result = TRUE
           /\ nav.target_map = t.npc_map[2]
           /\ PlacedOn(t.npc_map[2], t.npc_vnum, t.npc_pos)
           /\ t.seenInScene
           /\ Len(t.packets) = 1

\* A call that returned False stopped at the step that failed, and a call
\* that returned True went through all seven steps
StoppedAtFailure(t) ==
    t.pc = "done"
        => /\ t.result = TRUE => t.steps = StepOrder
           /\ (t.steps # <<>> /\ t.steps[Len(t.steps)] = "name")
                 => ~t.result /\ t.npc_vnum = NoMapId
           /\ (t.steps # <<>> /\ t.steps[Len(t.steps)] = "locate")
                 => ~t.result /\ ~Truthy(t.npc_map)
           /\ (t.steps # <<>> /\ t.steps[Len(t.steps)] = "travel")
                 => ~t.result /\ t.travelled = "false"
           /\ (t.steps # <<>> /\ t.steps[Len(t.steps)] = "coords")
                 => ~t.result /\ t.npc_pos = PyNone
           /\ (t.steps # <<>> /\ t.steps[Len(t.steps)] = "scene")
                 => ~t.result /\ t.packets = <<>>
           /\ (t.steps # <<>> /\ t.steps[Len(t.steps)] # "packet") => ~t.result

\* C20 as stated: the steps run in the fixed order, the packet is guarded,
\* and a step that fails ends the call with False and no later step; for
\* the walk step: after a walk command that raised, neither the scene lookup
\* nor the packet is begun and the call does not return True.
C20_AbortOnAnyFailure ==
    /\ InOrder(talk)
    /\ PacketGuarded(talk)
    /\ StoppedAtFailure(talk)
    /\ talk.walkSent = "raised"
          => /\ ~Has(talk, "scene") /\ ~Has(talk, "packet")
             /\ talk.pc = "done" => ~talk.result

\* What holds of go_to_npc_and_talk: the order, the guard of the packet, and
\* the return of False at a failed step for every step but the walk.
C20_OrderedAndGuarded ==
    /\ InOrder(talk)
    /\ PacketGuarded(talk)
    /\ StoppedAtFailure(talk)

\* A call returned True after its walk command raised: the scene lookup and
\* the packet followed all the same.
C20_Witness ==
    /\ talk.pc = "done"
    /\ talk.result = TRUE
    /\ talk.walkSent = "raised"
    /\ talk.steps = StepOrder
    /\ talk.packets = <<7>>

-----------------------------------------------------------------------------
(* Claims about the frame of the CacheManager operations (SpecCache)       *)

\* What the cache folder fs holds for a (cache type, key) pair, as the
\* cache's own read operations show it
Stored(fs, slot) ==
    <<CacheManager_exists(fs, slot[1], slot[2]), CacheManager_get(fs, slot[1], slot[2])>>

\* C21: a CacheManager.set call changes what is stored for no (type, key)
\* pair other than its own, the same key under another type included,
\* whatever the outcome of its write; CacheManager.get and
\* CacheManager.exists change nothing that is stored.
C21_SetTouchesOwnEntryOnly ==
    [][/\ last'.op = "cache_set"
             => \A slot \in CacheSlots :
                   slot # <<last'.cache_type, last'.key>>
                      => Stored(files', slot) = Stored(files, slot)
       /\ last'.op \in {"cache_get", "cache_exists"} => files' = files]_vars

\* A set on ("npc_locations", "a") failed after open() and left an
\* undecodable file there, while the values stored under the same key of
\* "pathfinding" and under the other key of "npc_locations" are in place.
C21_Witness ==
    /\ last.op = "cache_set"
    /\ last.cache_type = "npc_locations" /\ last.key = "a"
    /\ Stored(files, <<"npc_locations", "a">>) = <<TRUE, PyNone>>
    /\ Stored(files, <<"pathfinding", "a">>)
          = <<TRUE, json_load(json_dump(PyTuple(<<PyInt(1), PyInt(2)>>)))>>
    /\ Stored(files, <<"npc_locations", "b">>)
          = <<TRUE, json_load(json_dump(PyDict((PyInt(1) :> PyStr("a")))))>>


\* C22 (as stated): in every cache state exists(type, key) is True exactly
\* when get(type, key) returns a value.
C22_ExistsIffGetReturns ==
    \A slot \in CacheSlots :
        CacheManager_exists(files, slot[1], slot[2])
            <=> CacheManager_get(files, slot[1], slot[2]) # PyNone

\* C22 (what the code guarantees): get returns a value only for an entry
\* that exists, and after a set whose write failed after open() the entry
\* exists although get returns nothing for it.
C22_ExistsWheneverFilePresent ==
    \A slot \in CacheSlots :
        /\ CacheManager_get(files, slot[1], slot[2]) # PyNone
              => CacheManager_exists(files, slot[1], slot[2])
        /\ (last.op = "cache_set" /\ slot = <<last.cache_type, last.key>>
              /\ CacheManager_get(files, slot[1], slot[2]) = PyNone
              /\ slot \in DOMAIN lastSet /\ ~lastSet[slot].persisted
              /\ get_cache_file(slot[1], slot[2]) \in DOMAIN files)
              => CacheManager_exists(files, slot[1], slot[2])

\* exists was asked about an entry that a failed set left undecodable
C22_Witness ==
    /\ last.op = "cache_exists"
    /\ last.result = TRUE
    /\ CacheManager_get(files, last.cache_type, last.key) = PyNone
    /\ <<last.cache_type, last.key>> \in DOMAIN lastSet
    /\ ~lastSet[<<last.cache_type, last.key>>].persisted

-----------------------------------------------------------------------------
(* Name lookups over bounded indexes                                       *)

\* Largest number of entries of an index
MaxIndex == 2

\* French names of index entries; None stands for an entry without one
FindNames == { PyNone, <<"K", "o">>, <<"k">>, <<"o", "k">> }

\* Patterns looked for: empty, lower and upper case, shorter and longer
\* than the names, and one that occurs in no name
FindPatterns == { <<>>, <<"K">>, <<"o">>, <<"k", "O">>, <<"o", "k", "o">>, <<"z">> }

\* The indexes of up to MaxIndex entries; entry i has id i
Indexes ==
    UNION { { [i \in 1..n |-> NpcInfo(i, f[i])] : f \in [1..n -> FindNames] }
            : n \in 0..MaxIndex }

InitFind ==
    /\ files = NoFiles
    /\ mapFiles = <<>>
    /\ last = [op |-> "none"]
    /\ lastSet = NoFn
    /\ hist = NoHist
    /\ worldMap = 1
    /\ current_map_id = NoMapId
    /\ nav = NavIdle
    /\ talk = TalkIdle
    /\ npcs_data \in Indexes
    /\ monsters_data \in Indexes
    /\ quest = QuestIdle

FindNpcByName(name_pattern) ==
    /\ last' = [op |-> "find_npc_by_name", name_pattern |-> name_pattern,
                result |-> find_npc_by_name(npcs_data, name_pattern)]
    /\ UNCHANGED <<files, mapFiles, lastSet, hist>>
    /\ UNCHANGED <<navVars, questVars>>

FindMonsterByName(name_pattern) ==
    /\ last' = [op |-> "find_monster_by_name", name_pattern |-> name_pattern,
                result |-> find_monster_by_name(monsters_data, name_pattern)]
    /\ UNCHANGED <<files, mapFiles, lastSet, hist>>
    /\ UNCHANGED <<navVars, questVars>>

NextFind ==
    \/ \E p \in FindPatterns : FindNpcByName(p)
    \/ \E p \in FindPatterns : FindMonsterByName(p)

SpecFind == InitFind /\ [][NextFind]_vars

\* The index the last lookup went through
LastIndex == IF last.op = "find_npc_by_name" THEN npcs_data ELSE monsters_data

\* The test of the claim on a record: its lower-cased French name, the empty
\* string when it has none, contains the lower-cased pattern or is
\* contained in it
NameTest(rec, pattern) ==
    LET shown == IF rec.fr = PyNone THEN <<>> ELSE Lower(rec.fr)
    IN  Contains(shown, Lower(pattern)) \/ Contains(Lower(pattern), shown)

\* C24: find_npc_by_name and find_monster_by_name return the first record
\* of their index, in iteration order, that passes the name test, and None
\* exactly when no record passes it.
C24_FirstMatchOrNone ==
    last.op \in {"find_npc_by_name", "find_monster_by_name"} =>
        LET Pass == {i \in 1..Len(LastIndex) : NameTest(LastIndex[i], last.name_pattern)}
        IN  /\ last.result = PyNone <=> Pass = {}
            /\ Pass # {} =>
                  \E i \in Pass :
                     /\ \A j \in Pass : i <= j
                     /\ last.result = <<"npc", LastIndex[i]>>

\* The pattern "kO" found the second monster, named "k", after a first one
\* named "ok" that fails the test
C24_Witness ==
    /\ last.op = "find_monster_by_name"
    /\ last.name_pattern = <<"k", "O">>
    /\ Len(monsters_data) = 2
    /\ monsters_data[1].fr = <<"o", "k">>
    /\ last.result = <<"npc", NpcInfo(2, <<"k">>)>>

-----------------------------------------------------------------------------
(* do_act_2_1 as a step machine over go_to_npc_and_talk                    *)
(*   next         at the next go_to_npc_and_talk call of the try block     *)
(*   in_step      go_to_npc_and_talk runs (the steps of talk)              *)
(*   completed    line 595: all calls were made                            *)
(*   interrupted  line 598: KeyboardInterrupt                              *)
(*   caught       line 600: any other exception                            *)

\* The names of lines 567, 573, 579, 585 and 591
QuestSteps ==
    << <<"K", "o", "a", "r", "e", "n">>,
       <<"C", "o", "l", "l", "y">>,
       <<"S", "l", "u", "g", "g">>,
       <<"A", "n", "n", "i", "e">>,
       <<"M", "i", "m", "i", " ", "M", "e", "n", "t", "o", "r">> >>

\* npcs.json during the quest: Colly and Annie are not in it
QuestNpcsData ==
    << NpcInfo(1, <<"K", "o", "a", "r", "e", "n">>),
       NpcInfo(2, <<"S", "l", "u", "g", "g">>),
       NpcInfo(3, <<"M", "i", "m", "i", " ", "M", "e", "n", "t", "o", "r">>) >>

\* The map folder during the quest: Mimi Mentor stands on map 1, Koaren on
\* map 2 and Slugg on no map
QuestMapFiles ==
    << MapData(<<Npc(3, 1, 1)>>, <<Portal(2, 10, 10)>>),
       MapData(<<Npc(1, 5, 6)>>, <<Portal(1, 30, 30)>>),
       MapData(<<>>, <<>>) >>

\* What scene_manager.get_npcs gives during the quest
QuestSceneAnswers ==
    { <<"raises">>,
      <<"npcs", <<SceneNpc(1, 7), SceneNpc(3, 9)>>>> }

InitQuest ==
    /\ files = NoFiles
    /\ mapFiles = QuestMapFiles
    /\ last = [op |-> "none"]
    /\ lastSet = NoFn
    /\ hist = NoHist
    /\ worldMap = 1
    /\ current_map_id \in {NoMapId, worldMap}   \* update_position in __init__
    /\ nav = NavIdle
    /\ talk = TalkIdle
    /\ npcs_data = QuestNpcsData
    /\ monsters_data = <<>>
    /\ quest = QuestIdle

\* line 557: do_act_2_1 is called and enters its try block
QuestBegin ==
    /\ quest.pc = "idle"
    /\ quest' = [quest EXCEPT !.pc = "next"]
    /\ UNCHANGED <<dataVars, navVars, npcs_data, monsters_data>>

\* lines 567, 573, 579, 585, 591: the next go_to_npc_and_talk call
QuestCall ==
    /\ quest.pc = "next"
    /\ LET npc_name == QuestSteps[Len(quest.called) + 1] IN
       /\ talk' = [TalkIdle EXCEPT !.pc = "name", !.npc_name = npc_name]
       /\ quest' = [quest EXCEPT !.pc = "in_step", !.called = Append(@, npc_name)]
    /\ UNCHANGED <<dataVars, worldMap, current_map_id, nav, npcs_data, monsters_data>>

\* (mutant) the quest ends at the first call that returns False
AfterStep_stop_at_false(q, t) ==
    [q EXCEPT !.returns = Append(@, t.result),
              !.sent = @ \o (IF t.result THEN t.packets ELSE <<>>),
              !.pc = IF Len(q.called) = Len(QuestSteps) \/ ~t.result
                     THEN "completed" ELSE "next"]

\* The call returned: its value is dropped (the statements of lines 567-592
\* are expression statements) and control goes on to the next call, or to
\* line 595 after the last one
AfterStep(q, t) ==
    [q EXCEPT !.returns = Append(@, t.result),
              !.sent = @ \o (IF t.result THEN t.packets ELSE <<>>),
              !.pc = IF Len(q.called) = Len(QuestSteps) THEN "completed" ELSE "next"]

QuestStepReturn ==
    /\ quest.pc = "in_step"
    /\ talk.pc = "done"
    /\ quest' = AfterStep(quest, talk)
    /\ UNCHANGED <<dataVars, navVars, npcs_data, monsters_data>>

\* lines 600-603: an exception left go_to_npc_and_talk
QuestCatch ==
    /\ quest.pc = "in_step"
    /\ talk.pc = "raised"
    /\ quest' = [quest EXCEPT !.pc = "caught"]
    /\ UNCHANGED <<dataVars, navVars, npcs_data, monsters_data>>

\* lines 598-599: KeyboardInterrupt during a call or a sleep
QuestInterrupt ==
    /\ quest.pc \in {"next", "in_step"}
    /\ quest' = [quest EXCEPT !.pc = "interrupted"]
    /\ UNCHANGED <<dataVars, navVars, npcs_data, monsters_data>>

\* go_to_npc_and_talk runs
InStep == quest.pc = "in_step"

NextQuest ==
    \/ QuestBegin
    \/ QuestCall
    \/ QuestStepReturn
    \/ QuestCatch
    \/ QuestInterrupt
    \/ InStep /\ TalkFindNpc
    \/ InStep /\ \E o \in BothOutcomes : TalkLocate(o)
    \/ InStep /\ TalkTravel
    \/ InStep /\ \E ok \in BOOLEAN : PollStart(ok)
    \/ InStep /\ \E resp \in TalkResponses(current_map_id, nav.target_map) :
                    GetRoute(resp, "ok")
    \/ InStep /\ \E ok \in BOOLEAN : HopPoll(ok)
    \/ InStep /\ Restart
    \/ InStep /\ \E caught \in BOOLEAN : RecursionLimit(caught)
    \/ InStep /\ FindPortal
    \/ InStep /\ \E sent \in BOOLEAN : WalkCommand(sent)
    \/ InStep /\ \E ok \in BOOLEAN : WalkPoll(ok)
    \/ InStep /\ \E ok \in BOOLEAN : FinalPoll(ok)
    \/ InStep /\ Arrive
    \/ InStep /\ \E m \in WorldMaps : WorldMove(m)
    \/ InStep /\ TalkTravelReturn
    \/ InStep /\ TalkFindCoords
    \/ InStep /\ \E sent \in BOOLEAN : TalkWalk(sent)
    \/ InStep /\ \E ok \in BOOLEAN : TalkWalkPoll(ok)
    \/ InStep /\ \E a \in QuestSceneAnswers : TalkScene(a)
    \/ InStep /\ \E sent \in BOOLEAN : TalkSend(sent)

SpecQuest == InitQuest /\ [][NextQuest]_vars


\* The five steps of the quest, in the order of the claim
FiveSteps ==
    << <<"K", "o", "a", "r", "e", "n">>, <<"C", "o", "l", "l", "y">>,
       <<"S", "l", "u", "g", "g">>, <<"A", "n", "n", "i", "e">>,
       <<"M", "i", "m", "i", " ", "M", "e", "n", "t", "o", "r">> >>

StartsWith(long, short) ==
    /\ Len(short) <= Len(long)
    /\ SubSeq(long, 1, Len(short)) = short

\* C23: do_act_2_1 calls go_to_npc_and_talk for Koaren, Colly, Slugg, Annie
\* and Mimi Mentor in that order; after a call that returned, True or False,
\* it stands at the next call, and it ends before the fifth call returned
\* only through an exception or an interrupt; what the completed calls did
\* (cache entries written, the position observed, packets sent, values
\* returned) is never undone.
C23_FiveStepsInOrder ==
    /\ [](/\ StartsWith(FiveSteps, quest.called)
          /\ Len(quest.returns) \in {Len(quest.called) - 1, Len(quest.called)}
          /\ quest.pc = "in_step" => Len(quest.returns) = Len(quest.called) - 1
          /\ quest.pc = "next" =>
                /\ Len(quest.returns) = Len(quest.called)
                /\ Len(quest.called) < Len(FiveSteps)
                /\ ENABLED QuestCall
          /\ quest.pc = "completed" =>
                quest.called = FiveSteps /\ Len(quest.returns) = Len(FiveSteps)
          /\ quest.pc = "caught" => talk.pc = "raised")
    /\ [][/\ \A path \in DOMAIN files :
               path \in DOMAIN files' /\ files'[path] = files[path]
          /\ StartsWith(quest'.called, quest.called)
          /\ StartsWith(quest'.returns, quest.returns)
          /\ StartsWith(quest'.sent, quest.sent)
          /\ quest' # quest =>
                UNCHANGED <<files, mapFiles, worldMap, current_map_id>>]_vars

\* All five calls were made although the first four returned False; the
\* last one sent its packet, and the cache entries written on the way are
\* in place
C23_Witness ==
    /\ quest.pc = "completed"
    /\ quest.called = FiveSteps
    /\ quest.returns = <<FALSE, FALSE, FALSE, FALSE, TRUE>>
    /\ quest.sent = <<9>>
    /\ DOMAIN files # {}

====
